---- MODULE Spec2Model ----
(***************************************************************************)
(* A model of MIR_Assignment_1_20191048.py: tone synthesis                 *)
(* (make_sine_wave, generate_multi_pitch_tone, generate_sequence_of_pitch),*)
(* ShepardToneGenerator and SpectrogramConverter.                          *)
(*                                                                         *)
(* Numbers.  Python floats and torch float32 values are modelled in fixed  *)
(* point: a duration is a whole number of 1/DurDen seconds, an amplitude a *)
(* whole number of 1/One, a frequency a whole number of milli-Hz.  A       *)
(* waveform sample is kept symbolically, as the list of sine terms summed  *)
(* into it and the decimal exponent of the gain applied to it, so that two *)
(* samples are equal exactly when the code computes them the same way.     *)
(* Tensors are 1-based sequences here; the code's index k is k+1.          *)
(***************************************************************************)
EXTENDS Integers, Sequences, FiniteSets, TLC

VARIABLES
    shepard,      \* the ShepardToneGenerator object, or NoShepard
    converter,    \* the SpectrogramConverter object, or NoConverter
    pc,           \* the caller: "idle", "generate" (inside generate), "returned"
    call,         \* the call in progress or just returned: [op, args]
    ret,          \* what the call returned or raised
    arg_after,    \* the caller's input tensor as it is after the call
    gen,          \* generate's locals: i, j, outputs, and the last step's mix
    mono          \* get_spectrogram's local `audio` after the mono reduction

vars == <<shepard, converter, pc, call, ret, arg_after, gen, mono>>

(***************************************************************************)
(* Bounds of the model.                                                    *)
(***************************************************************************)
MaxDur == 6          \* durations are -1..MaxDur quarter seconds
MaxRate == 4         \* sampling rates of the synthesis calls are 1..MaxRate
MaxPartials == 2     \* pitch, amplitude and frequency lists have 0..MaxPartials entries
MaxIter == 2         \* a ShepardToneGenerator repeats its sequence 0..MaxIter times
MaxNFft == 4         \* n_fft is -1..MaxNFft
MaxHop == 2          \* hop_size is -1..MaxHop
MaxMels == 2         \* num_mels is 1..MaxMels
MaxSamples == 4      \* a 1-D audio tensor has 0..MaxSamples samples
MaxSide == 3         \* each dimension of a 2-D audio tensor is 1..MaxSide
MaxBin == 2          \* the bin conversions are asked for bins 0..MaxBin

DurDen == 2 * 2      \* a duration d stands for d/DurDen seconds
One == 10 ^ 6        \* the amplitude 1.0

Durations == -1 .. MaxDur
SynthRates == 1 .. MaxRate
Freqs == {440000, 660000}          \* milli-Hz
Pitches == {60, 64}                \* MIDI pitches
Amps == {One, One \div 2}
ShepardRates == {8, 10, 20}
NFfts == -1 .. MaxNFft
Hops == -1 .. MaxHop
ConverterRates == {16000}
Powers == {1, 2}                   \* power = 1.0 (magnitude) or 2.0 (power)
SampleValues == {0, 2}
DbValues == {0, 1, 9, 10, 11, 13, 99, 100, 101, 126, 1000}
EpsValues == {10, 100}             \* eps = 1e-10 (the default) or 1e-9
HzInputs == {<<0, 700>>, <<4000, 8000>>}

SeqsUpTo(S, n) == UNION {[1..m -> S] : m \in 0..n}

(***************************************************************************)
(* Results of a call: a returned value, or the exception raised.           *)
(***************************************************************************)
Ok(v) == [ok |-> TRUE, kind |-> "", val |-> v]
Raise(kind) == [ok |-> FALSE, kind |-> kind, val |-> <<>>]
NoRet == Raise("no call")
NoCall == [op |-> "none", args |-> [input |-> <<>>]]
NoTensor == <<>>

(***************************************************************************)
(* Integer helpers.                                                        *)
(***************************************************************************)
Min(a, b) == IF a <= b THEN a ELSE b
Max(a, b) == IF a >= b THEN a ELSE b

\* Python's int(x) of the rational a/b, b > 0: truncation toward zero.
TruncDiv(a, b) == IF a >= 0 THEN a \div b ELSE -((-a) \div b)

\* ceil(a/b), b > 0: the number of elements of torch.arange(a/b) when a >= 0.
CeilDiv(a, b) == -((-a) \div b)

\* Python's round(a/b), b > 0: to the nearest integer, ties to the even one.
RoundDiv(a, b) ==
    LET f == a \div b
        r == a - f * b
    IN  IF 2 * r < b THEN f
        ELSE IF 2 * r > b THEN f + 1
        ELSE IF f % 2 = 0 THEN f ELSE f + 1

RECURSIVE Pow2(_)
Pow2(n) == IF n <= 0 THEN 1 ELSE 2 * Pow2(n - 1)

RECURSIVE Flatten(_)
Flatten(ss) == IF ss = <<>> THEN <<>> ELSE Head(ss) \o Flatten(Tail(ss))

(***************************************************************************)
(* midi_pitch_to_hz: 440 * 2 ** ((midi_pitch - 69) / 12), in milli-Hz, for *)
(* a whole MIDI pitch.  2 ** (r/12) is read from SemitoneRatio (1/One).    *)
(***************************************************************************)
SemitoneRatio ==
    <<1000000, 1059463, 1122462, 1189207, 1259921, 1334840,
      1414214, 1498307, 1587401, 1681793, 1781797, 1887749>>

midi_pitch_to_hz(midi_pitch) ==
    LET q == (midi_pitch - 69) \div 12
        r == (midi_pitch - 69) % 12
        in_octave == (440 * SemitoneRatio[r + 1]) \div 1000
    IN  IF q >= 0 THEN in_octave * Pow2(q) ELSE in_octave \div Pow2(-q)

(***************************************************************************)
(* Samples.  SineTerm(freq, amp, k, sr) is amp * sin(2*pi*freq*(k/sr)).    *)
(* A sample is the sum of its terms times 10^(gain/1000).                  *)
(***************************************************************************)
SineTerm(freq, amp, k, sr) == [freq |-> freq, amp |-> amp, k |-> k, sr |-> sr]
Sample(terms) == [terms |-> terms, gain |-> 0]
Zero == Sample(<<>>)
Add(a, b) == Sample(a.terms \o b.terms)
Scale(a, e) == [terms |-> a.terms, gain |-> a.gain + e]

zeros(n) == [k \in 1..n |-> Zero]

(***************************************************************************)
(* make_sine_wave: torch.arange(dur * sr) has ceil(dur * sr) elements and  *)
(* rejects a negative end.                                                 *)
(***************************************************************************)
make_sine_wave(freq, amp, dur, sr) ==
    LET num_samples == dur * sr                      \* in 1/DurDen samples
        len == CeilDiv(num_samples, DurDen)
    IN  IF num_samples < 0 THEN Raise("RuntimeError")
        ELSE Ok([k \in 1..len |-> Sample(<<SineTerm(freq, amp, k - 1, sr)>>)])

(***************************************************************************)
(* chord_tone += sine_wave: an in-place add, which broadcasts a one-sample *)
(* right-hand side and raises when the sizes differ otherwise.             *)
(***************************************************************************)
AddInPlace(chord_tone, sine_wave) ==
    IF Len(sine_wave) = Len(chord_tone)
    THEN Ok([k \in 1..Len(chord_tone) |-> Add(chord_tone[k], sine_wave[k])])
    ELSE IF Len(sine_wave) = 1
    THEN Ok([k \in 1..Len(chord_tone) |-> Add(chord_tone[k], sine_wave[1])])
    ELSE Raise("RuntimeError")

RECURSIVE AddPartials(_, _, _, _, _, _)
AddPartials(chord_tone, freq_list, amp_list, n, duration, sr) ==
    IF n > Min(Len(freq_list), Len(amp_list)) THEN Ok(chord_tone)
    ELSE LET sine_wave == make_sine_wave(freq_list[n], amp_list[n], duration, sr)
         IN  IF ~sine_wave.ok THEN sine_wave
             ELSE LET sum == AddInPlace(chord_tone, sine_wave.val)
                  IN  IF ~sum.ok THEN sum
                      ELSE AddPartials(sum.val, freq_list, amp_list, n + 1, duration, sr)

generate_multi_pitch_tone(pitch_list, amp_list, duration, sr) ==
    IF Len(pitch_list) # Len(amp_list) THEN Raise("AssertionError")
    ELSE LET freq_list == [i \in 1..Len(pitch_list) |-> midi_pitch_to_hz(pitch_list[i])]
             size == TruncDiv(duration * sr, DurDen)
         IN  IF size < 0 THEN Raise("RuntimeError")      \* torch.zeros of a negative size
             ELSE AddPartials(zeros(size), freq_list, amp_list, 1, duration, sr)

(***************************************************************************)
(* generate_sequence_of_pitch: scale_sine starts as torch.zeros(int(dur*sr))*)
(* and every tone is torch.cat'ed after it.                                *)
(***************************************************************************)
RECURSIVE CatTones(_, _, _, _, _)
CatTones(scale_sine, alist_of_hz, n, duration, sr) ==
    IF n > Len(alist_of_hz) THEN Ok(scale_sine)
    ELSE LET sine_wave == make_sine_wave(alist_of_hz[n], One, duration, sr)
         IN  IF ~sine_wave.ok THEN sine_wave
             ELSE CatTones(scale_sine \o sine_wave.val, alist_of_hz, n + 1, duration, sr)

generate_sequence_of_pitch(alist_of_hz, duration, sr) ==
    LET size == TruncDiv(duration * sr, DurDen)
    IN  IF size < 0 THEN Raise("RuntimeError")
        ELSE CatTones(zeros(size), alist_of_hz, 1, duration, sr)

(***************************************************************************)
(* ShepardToneGenerator.  The two tables are indexed as in the code,       *)
(* [i][j] with i in 0..23 and j in 0..2.                                   *)
(***************************************************************************)
NumSteps == 24
NumPartials == 3

define_pitch ==
    LET base_pitch == 24
    IN  [i \in 0..(NumSteps - 1) |->
            [j \in 0..(NumPartials - 1) |-> (base_pitch + i) + j * 24]]

\* torch.exp(torch.tensor(-0.388 * i)) for i = 0..23, in 1/One.
ExpTable ==
    <<1000000, 678412, 460243, 312235, 211824, 143704, 97491, 66139,
      44869, 30440, 20651, 14010, 9504, 6448, 4374, 2968,
      2013, 1366, 927, 629, 426, 289, 196, 133>>

\* The first loop fills columns 1 and 2 of the zero table.
define_amplitude_pass1 ==
    [i \in 0..(NumSteps - 1) |->
        [j \in 0..(NumPartials - 1) |->
            IF j = 1 THEN One
            ELSE IF j = 2 THEN ExpTable[i + 1]
            ELSE 0]]

define_amplitude_unmirrored ==
    LET output == define_amplitude_pass1
    IN  [i \in 0..(NumSteps - 1) |-> [output[i] EXCEPT ![0] = output[i][2]]]

\* The second loop fills column 0 from column 2 of the mirrored row.
define_amplitude ==
    LET output == define_amplitude_pass1
    IN  [i \in 0..(NumSteps - 1) |-> [output[i] EXCEPT ![0] = output[23 - i][2]]]

\* __init__; fadeout_margin = dur * 0.1 is kept in 1/(10 * DurDen) seconds.
ShepardToneGenerator(sr, dur_per_step, num_iteration) ==
    [built |-> TRUE,
     sr |-> sr,
     dur |-> dur_per_step,
     iter |-> num_iteration,
     fadeout_margin |-> dur_per_step,
     pitch_combinations |-> define_pitch,
     amplitude_combinations |-> define_amplitude]

Row(table, j) == [n \in 1..NumPartials |-> table[j][n - 1]]

\* int(self.fadeout_margin * self.sr)
FadeLen(sh) == TruncDiv(sh.fadeout_margin * sh.sr, 10 * DurDen)

\* torch.logspace(0, -3, steps)[k], as a decimal exponent in 1/1000.
LogspaceExp(k, steps) == IF steps = 1 THEN 0 ELSE -((3000 * k) \div (steps - 1))

\* The first index (0-based) of the Python slice audio[-w:] of n samples.
SliceFrom(n, w) == IF w = 0 THEN 0 ELSE Max(n - w, 0)

(***************************************************************************)
(* audio[-w:] *= torch.logspace(0, -3, w): the slice is the last w samples,*)
(* but all of audio when w is 0; the in-place product raises unless the    *)
(* taper has the slice's length (or one element).                          *)
(***************************************************************************)
ApplyFadeout(audio, w) ==
    LET n == Len(audio)
        from == SliceFrom(n, w)
        slice_len == n - from
    IN  IF w < 0 THEN Raise("RuntimeError")
        ELSE IF slice_len = w
        THEN Ok([k \in 1..n |->
                    IF k - 1 >= from
                    THEN Scale(audio[k], LogspaceExp(k - 1 - from, w))
                    ELSE audio[k]])
        ELSE IF w = 1
        THEN Ok([k \in 1..n |->
                    IF k - 1 >= from THEN Scale(audio[k], LogspaceExp(0, w)) ELSE audio[k]])
        ELSE Raise("RuntimeError")

StepTone_rowOfIteration(sh, i, j) ==
    generate_multi_pitch_tone(Row(sh.pitch_combinations, j),
                              Row(sh.amplitude_combinations, i), sh.dur, sh.sr)

\* The tone of one step of generate: row j of both tables.
StepTone(sh, i, j) ==
    generate_multi_pitch_tone(Row(sh.pitch_combinations, j),
                              Row(sh.amplitude_combinations, j), sh.dur, sh.sr)

(***************************************************************************)
(* SpectrogramConverter.  The tensors of the analysis hold fixed-point     *)
(* numbers: window and filterbank weights and the values of cos and sin in *)
(* 1/Centi, a quotient rounded down to a whole unit.  An audio tensor is   *)
(* [ndim, shape, data]; a 1-D tensor's data is a sequence, a 2-D tensor's  *)
(* a sequence of rows.  A spectrogram is a sequence of rows (frequency     *)
(* bins), each a sequence over the time frames.                            *)
(***************************************************************************)
Centi == 10 ^ 2

Tensor1(data) == [ndim |-> 1, shape |-> <<Len(data)>>, data |-> data]
Tensor2(rows, cols, data) == [ndim |-> 2, shape |-> <<rows, cols>>, data |-> data]

RECURSIVE SumSeq(_)
SumSeq(xs) == IF xs = <<>> THEN 0 ELSE Head(xs) + SumSeq(Tail(xs))

RECURSIVE ISqrtBetween(_, _, _)
ISqrtBetween(n, lo, hi) ==
    IF hi - lo <= 1 THEN lo
    ELSE LET mid == (lo + hi) \div 2
         IN  IF mid * mid <= n THEN ISqrtBetween(n, mid, hi) ELSE ISqrtBetween(n, lo, mid)

\* floor(sqrt(n)) for 0 <= n < 2^30
ISqrt(n) == ISqrtBetween(n, 0, 2 ^ 15)

(***************************************************************************)
(* cos(2*pi*a/n) and sin(2*pi*a/n) in 1/Centi, n > 0.  Within the first    *)
(* quarter turn the cosine is Bhaskara's rational approximation            *)
(* (1 - 16 x^2) / (1 + 4 x^2), x = a/n turns, rounded to the nearest unit; *)
(* the other quarters follow by symmetry.                                  *)
(***************************************************************************)
CosQuarter(a, n) ==
    LET num == Centi * (n * n - 16 * a * a)
        den == n * n + 4 * a * a
    IN  (2 * num + den) \div (2 * den)

Cos100(a, n) ==
    LET t == a % n
        u == IF 2 * t > n THEN n - t ELSE t
    IN  IF 4 * u <= n THEN CosQuarter(u, n) ELSE -CosQuarter(n - 2 * u, 2 * n)

Sin100(a, n) == Cos100(4 * a - n, 4 * n)

(***************************************************************************)
(* torch.hann_window(n_fft): the periodic Hann window                      *)
(* 0.5 * (1 - cos(2*pi*k/n_fft)), all ones for n_fft = 1, empty for        *)
(* n_fft = 0; a negative length is rejected.                               *)
(***************************************************************************)
hann_window(n_fft) ==
    IF n_fft < 0 THEN Raise("RuntimeError")
    ELSE IF n_fft = 1 THEN Ok(<<Centi>>)
    ELSE Ok([k \in 1..n_fft |-> (Centi - Cos100(k - 1, n_fft)) \div 2])

(***************************************************************************)
(* log10 and 10^x by the table of 1000 * 10^(j/10), j = 0..10.             *)
(***************************************************************************)
DeciDecade == <<1000, 1259, 1585, 1996, 2512, 3163, 3982, 5012, 6310, 7944, 10000>>

RECURSIVE Pow10(_)
Pow10(e) == IF e <= 0 THEN 1 ELSE 10 * Pow10(e - 1)

RECURSIVE DecadeOf(_)
DecadeOf(n) == IF n < 10 THEN 0 ELSE 1 + DecadeOf(n \div 10)

\* n as a mantissa in 1000..9999 (of its decade), n >= 1
Mantissa(n) ==
    LET e == DecadeOf(n)
    IN  IF e >= 3 THEN n \div Pow10(e - 3) ELSE n * Pow10(3 - e)

\* the j in 0..9 with 10^(j/10) <= m/1000 < 10^((j+1)/10)
DeciStep(m) == Cardinality({j \in 1..9 : DeciDecade[j + 1] <= m})

\* floor(10 * log10(n)), n >= 1
Log10x10(n) == 10 * DecadeOf(n) + DeciStep(Mantissa(n))

\* 1000 * log10(n), n >= 1, linear between the table's entries
Log10Milli(n) ==
    LET m == Mantissa(n)
        j == DeciStep(m)
        lo == DeciDecade[j + 1]
        hi == DeciDecade[j + 2]
    IN  1000 * DecadeOf(n) + 100 * j + (100 * (m - lo)) \div (hi - lo)

\* 1000 * 10^(l/1000), l >= 0 and 10^(l/1000) < 2 * 10^5
Exp10Milli(l) ==
    LET e == l \div 1000
        j == (l % 1000) \div 100
        f == l % 100
        lo == DeciDecade[j + 1]
        hi == DeciDecade[j + 2]
    IN  (lo + ((hi - lo) * f) \div 100) * Pow10(e)

(***************************************************************************)
(* hz_to_mel: 2595 * log10(1 + hz / 700), hz in Hz, the result in 1/1000   *)
(* mel.  MelToHz is its inverse as torchaudio's filterbank uses it.        *)
(***************************************************************************)
HzToMelOne(hz) == 2595 * (Log10Milli(700 + hz) - Log10Milli(700))

hz_to_mel(hz) == [n \in 1..Len(hz) |-> HzToMelOne(hz[n])]

MelToHz(mel) == (700 * (Exp10Milli(mel \div 2595) - 1000)) \div 1000

\* torch.linspace(lo, hi, steps)[k], k = 0..steps-1
Linspace(lo, hi, steps, k) == IF steps = 1 THEN lo ELSE lo + ((hi - lo) * k) \div (steps - 1)

(***************************************************************************)
(* get_melfilterbank: torchaudio's MelScale(n_mels, sample_rate, f_min=0,  *)
(* f_max=sr/2, n_stft=n_fft//2+1).fb, the [n_stft, n_mels] matrix of       *)
(* triangular filters, in 1/Centi:                                         *)
(* fb[f][m] = max(0, min((freq_f - p_m)/(p_m+1 - p_m),                     *)
(*                       (p_m+2 - freq_f)/(p_m+2 - p_m+1)))                *)
(* with p the n_mels+2 points evenly spaced in mel from 0 to sr/2.         *)
(***************************************************************************)
get_melfilterbank(n_fft, sr, num_mels) ==
    LET n_stft == n_fft \div 2 + 1
        m_max == HzToMelOne(sr \div 2)
        f_pt(m) == MelToHz(Linspace(0, m_max, num_mels + 2, m))
        freq(f) == Linspace(0, sr \div 2, n_stft, f)
        down(f, m) == (Centi * (freq(f) - f_pt(m))) \div (f_pt(m + 1) - f_pt(m))
        up(f, m) == (Centi * (f_pt(m + 2) - freq(f))) \div (f_pt(m + 2) - f_pt(m + 1))
    IN  [f \in 1..n_stft |->
            [m \in 1..num_mels |-> Max(0, Min(down(f - 1, m - 1), up(f - 1, m - 1)))]]

\* __init__: the window is built first, and a negative n_fft fails there.
SpectrogramConverter(n_fft, hop_size, sample_rate, num_mels, power) ==
    LET window == hann_window(n_fft)
    IN  IF ~window.ok THEN window
        ELSE Ok([built |-> TRUE,
                 n_fft |-> n_fft,
                 hop_size |-> hop_size,
                 sr |-> sample_rate,
                 num_mels |-> num_mels,
                 window_tensor |-> window.val,
                 power |-> power,
                 mel_fb |-> get_melfilterbank(n_fft, sample_rate, num_mels)])

(***************************************************************************)
(* The mono reduction of get_spectrogram: a 2-D tensor is averaged over    *)
(* dim 0 when shape[1] > shape[0] and over dim 1 otherwise; any other      *)
(* tensor is passed on as it is.                                           *)
(***************************************************************************)
MeanDim0(audio) ==
    Tensor1([c \in 1..audio.shape[2] |->
                SumSeq([r \in 1..audio.shape[1] |-> audio.data[r][c]]) \div audio.shape[1]])

MeanDim1(audio) ==
    Tensor1([r \in 1..audio.shape[1] |-> SumSeq(audio.data[r]) \div audio.shape[2]])

ToMono_swapped(audio) ==
    IF audio.ndim = 2
    THEN IF audio.shape[1] > audio.shape[2] THEN MeanDim0(audio) ELSE MeanDim1(audio)
    ELSE audio

ToMono(audio) ==
    IF audio.ndim = 2
    THEN IF audio.shape[2] > audio.shape[1] THEN MeanDim0(audio) ELSE MeanDim1(audio)
    ELSE audio

(***************************************************************************)
(* range(0, stop, step) as the sequence of its values; step # 0.           *)
(***************************************************************************)
PyRange(stop, step) ==
    LET count == IF step > 0
                 THEN (IF stop <= 0 THEN 0 ELSE CeilDiv(stop, step))
                 ELSE (IF stop >= 0 THEN 0 ELSE CeilDiv(-stop, -step))
    IN  [t \in 1..count |-> (t - 1) * step]

FrameStarts_dropLast(len, n_fft, hop_size) == PyRange(len - n_fft, hop_size)

\* range(0, len(audio) - self.n_fft + 1, self.hop_size)
FrameStarts(len, n_fft, hop_size) == PyRange(len - n_fft + 1, hop_size)

\* audio[start:end], with Python's reading of negative and overlong indices
PySlice(xs, start, end) ==
    LET n == Len(xs)
        norm(i) == IF i < 0 THEN Max(i + n, 0) ELSE Min(i, n)
        from == norm(start)
        to == norm(end)
    IN  [k \in 1..Max(to - from, 0) |-> xs[from + k]]

\* a * b of two 1-D tensors: a one-element operand is broadcast
MulBroadcast(a, b) ==
    IF Len(a) = Len(b) THEN Ok([k \in 1..Len(a) |-> a[k] * b[k]])
    ELSE IF Len(a) = 1 THEN Ok([k \in 1..Len(b) |-> a[1] * b[k]])
    ELSE IF Len(b) = 1 THEN Ok([k \in 1..Len(a) |-> a[k] * b[1]])
    ELSE Raise("RuntimeError")

(***************************************************************************)
(* torch.fft.fft(y).abs(): bin k of m is                                   *)
(* sqrt(Re^2 + Im^2), Re = sum y[n] cos(2 pi k n / m),                     *)
(* Im = -sum y[n] sin(2 pi k n / m); an empty input is rejected.           *)
(* y is in 1/Centi, the result in whole units.                             *)
(***************************************************************************)
FftAbs(y) ==
    LET m == Len(y)
        re(k) == SumSeq([n \in 1..m |-> y[n] * Cos100(k * (n - 1), m)]) \div Centi
        im(k) == -(SumSeq([n \in 1..m |-> y[n] * Sin100(k * (n - 1), m)]) \div Centi)
    IN  IF m = 0 THEN Raise("RuntimeError")
        ELSE Ok([k \in 1..m |->
                    ISqrt(re(k - 1) * re(k - 1) + im(k - 1) * im(k - 1)) \div Centi])

\* x ** power for power 1.0 or 2.0
PowerOf(x, power) == IF power = 2 THEN x * x ELSE x

\* One pass of the loop of get_spectrogram: the column of the frame at start_idx.
SpectrogramSlice(conv, audio, start_idx) ==
    LET end_idx == start_idx + conv.n_fft
        corresp_slice == PySlice(audio, start_idx, end_idx)
        windowed_slice == MulBroadcast(corresp_slice, conv.window_tensor)
    IN  IF ~windowed_slice.ok THEN windowed_slice
        ELSE LET fft_result == FftAbs(windowed_slice.val)
             IN  IF ~fft_result.ok THEN fft_result
                 ELSE Ok([k \in 1..Len(fft_result.val) |->
                             PowerOf(fft_result.val[k], conv.power)])

RECURSIVE FirstError(_)
FirstError(rs) ==
    IF rs = <<>> THEN Ok(<<>>)
    ELSE IF ~Head(rs).ok THEN Head(rs) ELSE FirstError(Tail(rs))

(***************************************************************************)
(* get_spectrogram after the mono reduction: the assertion, the loop over  *)
(* the frames, torch.stack(output, 1) (which rejects an empty list) and    *)
(* the cut to the first n_fft//2+1 rows.                                   *)
(***************************************************************************)
get_spectrogram(conv, audio) ==
    IF audio.ndim # 1 THEN Raise("AssertionError")
    ELSE IF conv.hop_size = 0 THEN Raise("ValueError")
    ELSE LET starts == FrameStarts(Len(audio.data), conv.n_fft, conv.hop_size)
             output == [t \in 1..Len(starts) |->
                           SpectrogramSlice(conv, audio.data, starts[t])]
             failed == FirstError(output)
         IN  IF ~failed.ok THEN failed
             ELSE IF output = <<>> THEN Raise("RuntimeError")
             ELSE LET rows == Min(Len(output[1].val), conv.n_fft \div 2 + 1)
                  IN  Ok([k \in 1..rows |-> [t \in 1..Len(output) |-> output[t].val[k]]])

(***************************************************************************)
(* convert_spec_to_mel_spec: torch.mm(self.mel_fb.T, spec), which rejects  *)
(* a spectrogram whose row count is not the filterbank's.                  *)
(***************************************************************************)
convert_spec_to_mel_spec(conv, spec) ==
    IF Len(spec) # Len(conv.mel_fb) THEN Raise("RuntimeError")
    ELSE Ok([m \in 1..conv.num_mels |->
                [t \in 1..Len(spec[1]) |->
                    SumSeq([f \in 1..Len(spec) |-> conv.mel_fb[f][m] * spec[f][t]])
                        \div Centi]])

(***************************************************************************)
(* amplitude_to_db: 10 * log10(clamp(x, min=eps)), element by element.  A  *)
(* value v stands for v * 1e-11, so that the default eps is DefaultEps,    *)
(* and the result is in whole dB, rounded down.  log10(0) is -infinity.    *)
(***************************************************************************)
DefaultEps == 10
NegInf == -(10 ^ 6)

TenLog10(v) == IF v <= 0 THEN NegInf ELSE Log10x10(v) - 110

Clamp(rows, eps) == [r \in 1..Len(rows) |-> [c \in 1..Len(rows[r]) |-> Max(rows[r][c], eps)]]

amplitude_to_db_unclamped(spectrogram, eps) ==
    [r \in 1..Len(spectrogram) |->
        [c \in 1..Len(spectrogram[r]) |-> TenLog10(spectrogram[r][c])]]

amplitude_to_db(spectrogram, eps) ==
    LET clamped == Clamp(spectrogram, eps)
    IN  [r \in 1..Len(clamped) |-> [c \in 1..Len(clamped[r]) |-> TenLog10(clamped[r][c])]]

\* frequency_bin_to_hz: bin_index * (sr / n_fft), in milli-Hz
frequency_bin_to_hz(conv, bin_index) ==
    IF conv.n_fft = 0 THEN Raise("ZeroDivisionError")
    ELSE Ok(bin_index * ((conv.sr * 1000) \div conv.n_fft))

\* time_bin_to_second: bin_index * hop_size / sr, in microseconds
time_bin_to_second(conv, bin_index) ==
    Ok((bin_index * conv.hop_size * 10 ^ 6) \div conv.sr)

(***************************************************************************)
(* amplitude_to_db with the default eps of a spectrogram held in whole     *)
(* units, as get_spectrogram and convert_spec_to_mel_spec produce it: a    *)
(* cell that is 0 is clamped to eps, any other is 1 or more.               *)
(***************************************************************************)
amplitude_to_db_of_whole(spectrogram) ==
    [r \in 1..Len(spectrogram) |->
        [c \in 1..Len(spectrogram[r]) |->
            IF spectrogram[r][c] <= 0
            THEN amplitude_to_db(<< <<0>> >>, DefaultEps)[1][1]
            ELSE Log10x10(spectrogram[r][c])]]

\* __call__: the three stages, an exception of one ending the call.
converter_call(conv, audio) ==
    LET spec == get_spectrogram(conv, ToMono(audio))
    IN  IF ~spec.ok THEN spec
        ELSE LET mel_spec == convert_spec_to_mel_spec(conv, spec.val)
             IN  IF ~mel_spec.ok THEN mel_spec
                 ELSE Ok(amplitude_to_db_of_whole(mel_spec.val))

(***************************************************************************)
(* The state before any call.                                              *)
(***************************************************************************)
NoShepard == [built |-> FALSE]
NoConverter == [built |-> FALSE]
NoGen == [i |-> 0, j |-> 0, outputs |-> <<>>,
          mix |-> Raise("no step"), faded |-> Raise("no step")]

Init ==
    /\ shepard = NoShepard
    /\ converter = NoConverter
    /\ pc = "idle"
    /\ call = NoCall
    /\ ret = NoRet
    /\ arg_after = NoTensor
    /\ gen = NoGen
    /\ mono = NoTensor

\* The caller takes the result (or catches the exception) and goes on.
Return ==
    /\ pc = "returned"
    /\ pc' = "idle"
    /\ call' = NoCall
    /\ ret' = NoRet
    /\ arg_after' = NoTensor
    /\ gen' = NoGen
    /\ mono' = NoTensor
    /\ UNCHANGED <<shepard, converter>>

(***************************************************************************)
(* Calls of the module's synthesis functions.                              *)
(***************************************************************************)
CallMakeSineWave ==
    /\ pc = "idle"
    /\ \E freq \in Freqs, amp \in Amps, dur \in Durations, sr \in SynthRates :
         /\ call' = [op |-> "make_sine_wave",
                     args |-> [freq |-> freq, amp |-> amp, dur |-> dur, sr |-> sr]]
         /\ ret' = make_sine_wave(freq, amp, dur, sr)
    /\ pc' = "returned"
    /\ UNCHANGED <<shepard, converter, arg_after, gen, mono>>

CallGenerateMultiPitchTone ==
    /\ pc = "idle"
    /\ \E pitch_list \in SeqsUpTo(Pitches, MaxPartials),
          amp_list \in SeqsUpTo(Amps, MaxPartials),
          dur \in Durations, sr \in SynthRates :
         /\ call' = [op |-> "generate_multi_pitch_tone",
                     args |-> [pitch_list |-> pitch_list, amp_list |-> amp_list,
                               dur |-> dur, sr |-> sr]]
         /\ ret' = generate_multi_pitch_tone(pitch_list, amp_list, dur, sr)
    /\ pc' = "returned"
    /\ UNCHANGED <<shepard, converter, arg_after, gen, mono>>

CallGenerateSequenceOfPitch ==
    /\ pc = "idle"
    /\ \E alist_of_hz \in SeqsUpTo(Freqs, MaxPartials),
          dur \in Durations, sr \in SynthRates :
         /\ call' = [op |-> "generate_sequence_of_pitch",
                     args |-> [alist_of_hz |-> alist_of_hz, dur |-> dur, sr |-> sr]]
         /\ ret' = generate_sequence_of_pitch(alist_of_hz, dur, sr)
    /\ pc' = "returned"
    /\ UNCHANGED <<shepard, converter, arg_after, gen, mono>>

NextSynth ==
    \/ CallMakeSineWave
    \/ CallGenerateMultiPitchTone
    \/ CallGenerateSequenceOfPitch
    \/ Return

SpecSynth == Init /\ [][NextSynth]_vars

(***************************************************************************)
(* ShepardToneGenerator: construction and generate.  A run builds one      *)
(* object; the two classes share no state.  generate is followed step by   *)
(* step: one GenerateStep is one pass of the inner loop body.              *)
(***************************************************************************)
NewShepard ==
    /\ pc = "idle"
    /\ ~shepard.built
    /\ ~converter.built
    /\ \E sr \in ShepardRates, dur \in Durations, iter \in 0..MaxIter :
         /\ call' = [op |-> "ShepardToneGenerator",
                     args |-> [sr |-> sr, dur |-> dur, iter |-> iter, input |-> NoTensor]]
         /\ shepard' = ShepardToneGenerator(sr, dur, iter)
    /\ ret' = Ok(<<>>)
    /\ pc' = "returned"
    /\ UNCHANGED <<converter, arg_after, gen, mono>>

CallGenerate ==
    /\ pc = "idle"
    /\ shepard.built
    /\ pc' = "generate"
    /\ call' = [op |-> "generate", args |-> [input |-> NoTensor]]
    /\ gen' = NoGen
    /\ UNCHANGED <<shepard, converter, ret, arg_after, mono>>

GenerateStep ==
    /\ pc = "generate"
    /\ gen.i < shepard.iter
    /\ LET audio == StepTone(shepard, gen.i, gen.j)
           faded == IF audio.ok THEN ApplyFadeout(audio.val, FadeLen(shepard)) ELSE audio
           last == gen.j = NumSteps - 1
       IN  IF faded.ok
           THEN /\ gen' = [i |-> IF last THEN gen.i + 1 ELSE gen.i,
                           j |-> IF last THEN 0 ELSE gen.j + 1,
                           outputs |-> Append(gen.outputs, faded.val),
                           mix |-> audio,
                           faded |-> faded]
                /\ UNCHANGED <<pc, ret>>
           ELSE /\ gen' = [gen EXCEPT !.mix = audio, !.faded = faded]
                /\ pc' = "returned"
                /\ ret' = faded
    /\ UNCHANGED <<shepard, converter, call, arg_after, mono>>

\* return torch.cat(outputs, dim=-1), which rejects an empty list.
GenerateReturn ==
    /\ pc = "generate"
    /\ gen.i >= shepard.iter
    /\ ret' = IF gen.outputs = <<>> THEN Raise("RuntimeError") ELSE Ok(Flatten(gen.outputs))
    /\ pc' = "returned"
    /\ UNCHANGED <<shepard, converter, call, arg_after, gen, mono>>

NextShepard ==
    \/ NewShepard
    \/ CallGenerate
    \/ GenerateStep
    \/ GenerateReturn
    \/ Return

SpecShepard == Init /\ [][NextShepard]_vars

(***************************************************************************)
(* The tensors the calls of a SpectrogramConverter are given.              *)
(***************************************************************************)
Audio1D == {Tensor1(d) : d \in SeqsUpTo(SampleValues, MaxSamples)}

Audio2D ==
    {Tensor2(rows, cols, [r \in 1..rows |-> [c \in 1..cols |-> 2 * ((r * p + c) % 3)]]) :
        rows \in 1..MaxSide, cols \in 1..MaxSide, p \in 0..1}

AudioOther ==
    {[ndim |-> 0, shape |-> <<>>, data |-> <<>>],
     [ndim |-> 3, shape |-> <<1, 1, 2>>, data |-> << << <<0, 2>> >> >>]}

\* The audio tensors by number of dimensions: 1, 2, or another.
AudioKinds == {"1-D", "2-D", "other"}
AudioInputs(kind) ==
    IF kind = "1-D" THEN Audio1D ELSE IF kind = "2-D" THEN Audio2D ELSE AudioOther

SpecInputs ==
    {[f \in 1..rows |-> [t \in 1..cols |-> 10 * f + t]] : rows \in 1..3, cols \in 1..2}

DbInputs == {<< <<ab[1], ab[2]>> >> : ab \in {xy \in DbValues \X DbValues : xy[1] <= xy[2]}}

(***************************************************************************)
(* SpectrogramConverter: construction and the calls of its methods.        *)
(***************************************************************************)
NewConverter ==
    /\ pc = "idle"
    /\ ~shepard.built
    /\ ~converter.built
    /\ \E n_fft \in NFfts, hop_size \in Hops, sr \in ConverterRates,
          num_mels \in 1..MaxMels, power \in Powers :
         LET made == SpectrogramConverter(n_fft, hop_size, sr, num_mels, power)
         IN  /\ call' = [op |-> "SpectrogramConverter",
                         args |-> [n_fft |-> n_fft, hop_size |-> hop_size, sr |-> sr,
                                   num_mels |-> num_mels, power |-> power,
                                   input |-> NoTensor]]
             /\ converter' = IF made.ok THEN made.val ELSE converter
             /\ ret' = IF made.ok THEN Ok(<<>>) ELSE made
    /\ pc' = "returned"
    /\ UNCHANGED <<shepard, arg_after, gen, mono>>

CallGetSpectrogram ==
    /\ pc = "idle"
    /\ converter.built
    /\ \E kind \in AudioKinds : \E audio \in AudioInputs(kind) :
         /\ call' = [op |-> "get_spectrogram", args |-> [input |-> audio]]
         /\ mono' = ToMono(audio)
         /\ ret' = get_spectrogram(converter, mono')
         /\ arg_after' = audio
    /\ pc' = "returned"
    /\ UNCHANGED <<shepard, converter, gen>>

CallConvertSpecToMelSpec ==
    /\ pc = "idle"
    /\ converter.built
    /\ \E spec \in SpecInputs :
         /\ call' = [op |-> "convert_spec_to_mel_spec", args |-> [input |-> spec]]
         /\ ret' = convert_spec_to_mel_spec(converter, spec)
         /\ arg_after' = spec
    /\ pc' = "returned"
    /\ UNCHANGED <<shepard, converter, gen, mono>>

\* The slip torch.clamp_ for torch.clamp: the caller's tensor is clamped in place.
CallAmplitudeToDb_inPlace ==
    /\ pc = "idle"
    /\ converter.built
    /\ \E spectrogram \in DbInputs, eps \in EpsValues :
         /\ call' = [op |-> "amplitude_to_db", args |-> [input |-> spectrogram, eps |-> eps]]
         /\ ret' = Ok(amplitude_to_db(spectrogram, eps))
         /\ arg_after' = Clamp(spectrogram, eps)
    /\ pc' = "returned"
    /\ UNCHANGED <<shepard, converter, gen, mono>>

CallAmplitudeToDb ==
    /\ pc = "idle"
    /\ converter.built
    /\ \E spectrogram \in DbInputs, eps \in EpsValues :
         /\ call' = [op |-> "amplitude_to_db", args |-> [input |-> spectrogram, eps |-> eps]]
         /\ ret' = Ok(amplitude_to_db(spectrogram, eps))
         /\ arg_after' = spectrogram
    /\ pc' = "returned"
    /\ UNCHANGED <<shepard, converter, gen, mono>>

CallHzToMel ==
    /\ pc = "idle"
    /\ converter.built
    /\ \E hz \in HzInputs :
         /\ call' = [op |-> "hz_to_mel", args |-> [input |-> hz]]
         /\ ret' = Ok(hz_to_mel(hz))
         /\ arg_after' = hz
    /\ pc' = "returned"
    /\ UNCHANGED <<shepard, converter, gen, mono>>

CallFrequencyBinToHz ==
    /\ pc = "idle"
    /\ converter.built
    /\ \E bin_index \in 0..MaxBin :
         /\ call' = [op |-> "frequency_bin_to_hz",
                     args |-> [bin_index |-> bin_index, input |-> NoTensor]]
         /\ ret' = frequency_bin_to_hz(converter, bin_index)
    /\ pc' = "returned"
    /\ UNCHANGED <<shepard, converter, arg_after, gen, mono>>

CallTimeBinToSecond ==
    /\ pc = "idle"
    /\ converter.built
    /\ \E bin_index \in 0..MaxBin :
         /\ call' = [op |-> "time_bin_to_second",
                     args |-> [bin_index |-> bin_index, input |-> NoTensor]]
         /\ ret' = time_bin_to_second(converter, bin_index)
    /\ pc' = "returned"
    /\ UNCHANGED <<shepard, converter, arg_after, gen, mono>>

CallConverter ==
    /\ pc = "idle"
    /\ converter.built
    /\ \E kind \in AudioKinds : \E audio \in AudioInputs(kind) :
         /\ call' = [op |-> "__call__", args |-> [input |-> audio]]
         /\ mono' = ToMono(audio)
         /\ ret' = converter_call(converter, audio)
         /\ arg_after' = audio
    /\ pc' = "returned"
    /\ UNCHANGED <<shepard, converter, gen>>

NextConverter ==
    \/ NewConverter
    \/ CallGetSpectrogram
    \/ CallConvertSpecToMelSpec
    \/ CallAmplitudeToDb
    \/ CallHzToMel
    \/ CallFrequencyBinToHz
    \/ CallTimeBinToSecond
    \/ CallConverter
    \/ Return

SpecConverter == Init /\ [][NextConverter]_vars

(***************************************************************************)
(* Both classes: a run builds one object and calls its methods.            *)
(***************************************************************************)
NextObjects ==
    \/ NewShepard
    \/ CallGenerate
    \/ GenerateStep
    \/ GenerateReturn
    \/ NewConverter
    \/ CallGetSpectrogram
    \/ CallConvertSpecToMelSpec
    \/ CallAmplitudeToDb
    \/ CallHzToMel
    \/ CallFrequencyBinToHz
    \/ CallTimeBinToSecond
    \/ CallConverter
    \/ Return

SpecObjects == Init /\ [][NextObjects]_vars

(***************************************************************************)
(* C3: for every duration >= 0 and every sample rate, make_sine_wave and   *)
(* generate_multi_pitch_tone return a waveform of exactly                  *)
(* round(duration * sr) samples, also when duration * sr is not whole.     *)
(* (generate_multi_pitch_tone is asked here only with lists of one length.)*)
(***************************************************************************)
C3_LengthIsRounded ==
    (/\ pc = "returned"
     /\ call.op \in {"make_sine_wave", "generate_multi_pitch_tone"}
     /\ call.args.dur >= 0
     /\ call.op = "generate_multi_pitch_tone"
            => Len(call.args.pitch_list) = Len(call.args.amp_list))
    => /\ ret.ok
       /\ Len(ret.val) = RoundDiv(call.args.dur * call.args.sr, DurDen)

(***************************************************************************)
(* C8: generate_sequence_of_pitch returns exactly the tones of the list,   *)
(* end to end in list order, each lasting `duration`: the output starts    *)
(* with the first frequency's tone and has len(alist_of_hz) times the      *)
(* per-tone sample count.                                                  *)
(***************************************************************************)
TonesOf(alist_of_hz, dur, sr) ==
    [n \in 1..Len(alist_of_hz) |-> make_sine_wave(alist_of_hz[n], One, dur, sr).val]

C8_OnlyTheTones ==
    (/\ pc = "returned"
     /\ call.op = "generate_sequence_of_pitch"
     /\ Len(call.args.alist_of_hz) >= 1
     /\ ret.ok)
    => LET tones == TonesOf(call.args.alist_of_hz, call.args.dur, call.args.sr)
           per_tone == CeilDiv(call.args.dur * call.args.sr, DurDen)
       IN  /\ ret.val = Flatten(tones)
           /\ Len(ret.val) = Len(call.args.alist_of_hz) * per_tone

(***************************************************************************)
(* C2: in the amplitude table of a ShepardToneGenerator, for every step i  *)
(* in 0..23, amp[i][0] = amp[23-i][2] and amp[i][1] = 1.0.                 *)
(***************************************************************************)
C2_AmplitudeMirror ==
    shepard.built =>
        \A i \in 0..23 :
            /\ shepard.amplitude_combinations[i][0] = shepard.amplitude_combinations[23 - i][2]
            /\ shepard.amplitude_combinations[i][1] = One

\* A built generator whose lower partial is faint where its upper partial is full.
C2_Witness ==
    /\ shepard.built
    /\ shepard.amplitude_combinations[0][2] = One
    /\ shepard.amplitude_combinations[0][0] = ExpTable[24]
    /\ shepard.amplitude_combinations[0][0] < shepard.amplitude_combinations[0][2]

(***************************************************************************)
(* C9: generate returns the concatenation of exactly 24 * iteration_count  *)
(* step waveforms: the segment at position r*24 + s is the 3-partial mix   *)
(* of row s of the pitch table (24 + s + 24*j) and row s of the amplitude  *)
(* table, steps ascend 0..23 within each repetition, and the total length  *)
(* is 24 * iteration_count times the per-step sample count.  Stated of the *)
(* list of segments at every point of generate and of the value returned.  *)
(***************************************************************************)
C9_StepsInOrder ==
    (shepard.built /\ call.op = "generate") =>
        LET per_step == TruncDiv(shepard.dur * shepard.sr, DurDen)
        IN  /\ Len(gen.outputs) = 24 * gen.i + gen.j
            /\ \A p \in 1..Len(gen.outputs) :
                 LET s == (p - 1) % 24
                 IN  /\ Len(gen.outputs[p]) = per_step
                     /\ \A m \in 1..per_step :
                          gen.outputs[p][m].terms =
                              [c \in 1..3 |->
                                  SineTerm(midi_pitch_to_hz(24 + s + 24 * (c - 1)),
                                           shepard.amplitude_combinations[s][c - 1],
                                           m - 1, shepard.sr)]
            /\ (pc = "returned" /\ ret.ok) =>
                 /\ Len(gen.outputs) = 24 * shepard.iter
                 /\ ret.val = Flatten(gen.outputs)
                 /\ Len(ret.val) = 24 * shepard.iter * per_step

\* generate has returned two repetitions of twenty-sample steps.
C9_Witness ==
    /\ pc = "returned"
    /\ call.op = "generate"
    /\ ret.ok
    /\ shepard.iter = 2
    /\ Len(gen.outputs) = 48
    /\ Len(ret.val) = 48 * 20

(***************************************************************************)
(* C10: in generate, whenever the fade-out window                          *)
(* W = int(0.1 * duration_per_step * sample_rate) does not exceed one      *)
(* step's sample count, the step waveform has only its final W samples     *)
(* scaled by the taper (from factor 1 down to factor 10^-3), every sample  *)
(* before the window is the un-tapered mix, and the step's length is       *)
(* unchanged.                                                              *)
(***************************************************************************)
C10_FadeOnlyTheTail ==
    (gen.mix.ok /\ FadeLen(shepard) <= Len(gen.mix.val)) =>
        LET w == FadeLen(shepard)
            mix == gen.mix.val
            n == Len(mix)
            out == gen.faded
        IN  /\ out.ok
            /\ Len(out.val) = n
            /\ \A k \in 1..(n - w) : out.val[k] = mix[k]
            /\ \A k \in (n - w + 1)..n :
                 /\ out.val[k].terms = mix[k].terms
                 /\ out.val[k].gain \in -3000..0
            /\ w >= 2 => /\ out.val[n - w + 1].gain = 0
                         /\ out.val[n].gain = -3000

(***************************************************************************)
(* C1: for every mono input of N samples with N >= n_fft >= 1 and          *)
(* hop_size >= 1, get_spectrogram returns exactly n_fft/2 + 1 frequency    *)
(* bins and exactly floor((N - n_fft)/hop_size) + 1 time frames: frame t   *)
(* is the frame starting at t * hop_size, every frame lies within the      *)
(* input, and no further frame would.                                      *)
(***************************************************************************)
C1_SpectrogramShape ==
    (/\ pc = "returned"
     /\ call.op = "get_spectrogram"
     /\ mono.ndim = 1
     /\ converter.n_fft >= 1
     /\ converter.hop_size >= 1
     /\ Len(mono.data) >= converter.n_fft)
    => LET N == Len(mono.data)
           bins == converter.n_fft \div 2 + 1
           frames == (N - converter.n_fft) \div converter.hop_size + 1
       IN  /\ ret.ok
           /\ Len(ret.val) = bins
           /\ \A k \in 1..bins : Len(ret.val[k]) = frames
           /\ \A t \in 1..frames :
                LET start == (t - 1) * converter.hop_size
                    column == SpectrogramSlice(converter, mono.data, start)
                IN  /\ start + converter.n_fft <= N
                    /\ column.ok
                    /\ \A k \in 1..bins : ret.val[k][t] = column.val[k]
           /\ frames * converter.hop_size + converter.n_fft > N

\* Four samples, n_fft 3, hop 2: one frame, the window at start 2 being incomplete.
C1_Witness ==
    /\ pc = "returned"
    /\ call.op = "get_spectrogram"
    /\ ret.ok
    /\ mono.ndim = 1
    /\ Len(mono.data) = 4
    /\ converter.n_fft = 3
    /\ converter.hop_size = 2
    /\ Len(ret.val) = 2
    /\ Len(ret.val[1]) = 1
    /\ ret.val[1][1] > 0

(***************************************************************************)
(* C4: amplitude_to_db returns 10*log10(max(v, floor)) for every element   *)
(* v: every element at or below the floor maps to 10*log10(floor) (-100 dB *)
(* for v = 0 and the floor 1e-10), no output is -infinity, and above the   *)
(* floor the result is non-decreasing in v.                                *)
(***************************************************************************)
C4_ClampedDb ==
    (pc = "returned" /\ call.op = "amplitude_to_db") =>
        LET x == call.args.input
            eps == call.args.eps
            floor_db == IF eps = DefaultEps THEN -100 ELSE TenLog10(eps)
            Cells == {rc \in (1..Len(x)) \X (1..2) : rc[2] <= Len(x[rc[1]])}
        IN  /\ ret.ok
            /\ Len(ret.val) = Len(x)
            /\ \A rc \in Cells :
                 LET v == x[rc[1]][rc[2]]
                     db == ret.val[rc[1]][rc[2]]
                 IN  /\ db = TenLog10(Max(v, eps))
                     /\ v <= eps => db = floor_db
                     /\ db > NegInf
                     /\ db >= floor_db
            /\ \A p \in Cells, q \in Cells :
                 (/\ x[p[1]][p[2]] > eps
                  /\ x[p[1]][p[2]] <= x[q[1]][q[2]])
                 => ret.val[p[1]][p[2]] <= ret.val[q[1]][q[2]]

\* A zero and a value above the default floor: -100 dB and something louder.
C4_Witness ==
    /\ pc = "returned"
    /\ call.op = "amplitude_to_db"
    /\ call.args.eps = DefaultEps
    /\ call.args.input[1][1] = 0
    /\ call.args.input[1][2] > DefaultEps
    /\ ret.ok
    /\ ret.val[1][1] = -100
    /\ ret.val[1][2] > -100

(***************************************************************************)
(* C5 as the specification states it: get_spectrogram on a 2-D input       *)
(* averages across the shorter dimension, and an input not reducible to    *)
(* mono, including a 2-D input whose two dimensions are equal and an input *)
(* of more than 2 dimensions, fails with an error and returns no           *)
(* spectrogram.  (Stated of converters with n_fft >= 1 and hop_size >= 1.) *)
(***************************************************************************)
MeanOverShorter(audio) ==
    LET rows == audio.shape[1]
        cols == audio.shape[2]
    IN  IF cols > rows
        THEN [c \in 1..cols |-> SumSeq([r \in 1..rows |-> audio.data[r][c]]) \div rows]
        ELSE [r \in 1..rows |-> SumSeq([c \in 1..cols |-> audio.data[r][c]]) \div cols]

C5_AmbiguousAxisFails ==
    (/\ pc = "returned"
     /\ call.op = "get_spectrogram"
     /\ converter.n_fft >= 1
     /\ converter.hop_size >= 1)
    => LET audio == call.args.input
       IN  /\ (audio.ndim = 2 /\ audio.shape[1] # audio.shape[2])
                => (mono.ndim = 1 /\ mono.data = MeanOverShorter(audio))
           /\ (audio.ndim = 2 /\ audio.shape[1] = audio.shape[2]) => ~ret.ok
           /\ audio.ndim > 2 => ~ret.ok

(***************************************************************************)
(* C5 as amended: a 2-D input is averaged over dim 0 when shape[1] >       *)
(* shape[0] and over dim 1 otherwise, which is the shorter dimension and,  *)
(* for equal dimensions, dim 1: a square input is reduced like any other   *)
(* and yields a spectrogram when its mono signal has n_fft samples.  Only  *)
(* an input whose number of dimensions is neither 1 nor 2 fails, with the  *)
(* AssertionError of line 242, and returns no spectrogram.                 *)
(***************************************************************************)
C5_MonoReduction ==
    (/\ pc = "returned"
     /\ call.op = "get_spectrogram"
     /\ converter.n_fft >= 1
     /\ converter.hop_size >= 1)
    => LET audio == call.args.input
       IN  /\ audio.ndim = 2 =>
                /\ mono.ndim = 1
                /\ mono.data = MeanOverShorter(audio)
                /\ Len(mono.data) = Max(audio.shape[1], audio.shape[2])
                /\ Len(mono.data) >= converter.n_fft => ret.ok
                /\ ~ret.ok => ret.kind = "RuntimeError"
           /\ audio.ndim \notin {1, 2} =>
                /\ ~ret.ok
                /\ ret.kind = "AssertionError"

\* A 2 x 3 input with unequal rows, averaged over its two rows into three samples.
C5_Witness ==
    /\ pc = "returned"
    /\ call.op = "get_spectrogram"
    /\ call.args.input.ndim = 2
    /\ call.args.input.shape = <<2, 3>>
    /\ call.args.input.data[1] # call.args.input.data[2]
    /\ mono.data = MeanOverShorter(call.args.input)
    /\ Len(mono.data) = 3
    /\ converter.n_fft = 2
    /\ converter.hop_size = 1
    /\ ret.ok

(***************************************************************************)
(* C6: n_fft <= 0 or hop_size <= 0 is surfaced to the caller as an error:  *)
(* no call of get_spectrogram or __call__ on such a converter returns a    *)
(* spectrogram.                                                            *)
(***************************************************************************)
C6_DegenerateRejected ==
    (/\ pc = "returned"
     /\ call.op \in {"get_spectrogram", "__call__"}
     /\ (converter.n_fft <= 0 \/ converter.hop_size <= 0))
    => ~ret.ok

(***************************************************************************)
(* C7: after construction no step of generate, get_spectrogram,            *)
(* convert_spec_to_mel_spec, amplitude_to_db, hz_to_mel, the bin           *)
(* conversions or __call__ changes the object's construct-once state       *)
(* (window_tensor, mel_fb, pitch_combinations, amplitude_combinations and  *)
(* the parameters), and when a call returns, the caller's input array is   *)
(* what it was when the call was made.                                     *)
(***************************************************************************)
C7_NoSideEffects ==
    [][/\ shepard.built => shepard' = shepard
       /\ converter.built => converter' = converter
       /\ (pc' = "returned" /\ (shepard.built \/ converter.built))
            => arg_after' = call'.args.input]_vars

\* amplitude_to_db has returned a clamped result and the zero of its input is still there.
C7_Witness ==
    /\ pc = "returned"
    /\ call.op = "amplitude_to_db"
    /\ converter.built
    /\ converter.window_tensor # <<>>
    /\ call.args.input[1][1] = 0
    /\ ret.ok
    /\ ret.val[1][1] = -100
    /\ arg_after = call.args.input

====
